---- MODULE Spec2Model ----
(***************************************************************************)
(* Model of basin-coding (src/src/basin_coding.js): a base-N binary-to-text *)
(* range coder.  Encoder.encode, the Decoder constructor, the decode        *)
(* generator and calculateParams are modelled statement by statement.       *)
(*                                                                          *)
(* Numbers.  The program computes with JavaScript numbers that hold exact   *)
(* integers below 2^53 (interval bounds are below 2^41, products below      *)
(* 2^49), so every Math.floor / Math.ceil / % / * in it is exact integer    *)
(* arithmetic.  TLC's integers are 32 bits wide, so an interval value n is  *)
(* held as a digit vector <<d1, ..., dL>> in the output base, with          *)
(* L = maxDigitsToDecode:                                                   *)
(*     n = d1 * msdDivisor + d2 * secondMsdDivisor + ... + dL               *)
(* where 0 <= di < base for i > 1 and d1 = floor(n / msdDivisor) is any     *)
(* integer (negative for a negative n, >= base for n >= msdDivisor * base). *)
(* msdDivisor = base^(L-1) and secondMsdDivisor = base^(L-2) are the place  *)
(* values of d1 and d2.                                                     *)
(***************************************************************************)
EXTENDS Integers, Sequences, FiniteSets, TLC

VARIABLES
    pc,                 \* position of the running call
    base,               \* alphabet.length / decodingTable.size of the call
    alphabet,           \* Encoder.encodingTable: sequence of char codes
    decodingTable,      \* Decoder.decodingTable: char code -> index
    tableI,             \* Decoder constructor: loop variable i
    params,             \* result of calculateParams(base)
    bytes,              \* bytes pulled so far from the encoder's iterable
    result,             \* the encoder's StringBuilder, as char codes
    bytesEncoded, lo, hi, digitsToAdd, digitsToAddHiMsd,
    budget,             \* the `_` of the digit-extraction for loop
    encodedText,        \* the text handed to decode
    inserted,           \* number of whitespace characters put into the text
    endIndex, lengthParity, bytesDecoded, decLo, decHi, i, digitsToDecode,
    requestedDigits, requestedDigitsKeepMsd, isLastDigit,
    byte,               \* the byte computed last by decode
    output              \* the values decode has yielded

vars == <<pc, base, alphabet, decodingTable, tableI, params, bytes, result,
          bytesEncoded, lo, hi, digitsToAdd, digitsToAddHiMsd, budget,
          encodedText, inserted, endIndex, lengthParity,
          bytesDecoded, decLo, decHi, i, digitsToDecode, requestedDigits,
          requestedDigitsKeepMsd, isLastDigit, byte, output>>

-----------------------------------------------------------------------------
(* Program constants *)

MIN_ALPHABET_SIZE == 2
MAX_ALPHABET_SIZE == 256

\* "0123456789abcdefghijklmnopqrstuvwxyzABCDEFGHIJKLMNOPQRSTUVWXYZ"
\* + "!@#$%^*()-=;,./_+{}|:?~", as char codes
DEFAULT_ALPHABET ==
    [k \in 1..10 |-> 47 + k] \o [k \in 1..26 |-> 96 + k]
    \o [k \in 1..26 |-> 64 + k]
    \o <<33, 64, 35, 36, 37, 94, 42, 40, 41, 45, 61, 59, 44, 46, 47, 95, 43,
         123, 125, 124, 58, 63, 126>>

\* " \n\r\t\v\f   "
WhitespaceChars == {32, 10, 13, 9, 11, 12, 160, 8232, 8233}

isWhitespace(ch) == ch \in WhitespaceChars

-----------------------------------------------------------------------------
(* Exact integer arithmetic on digit vectors *)

\* The element of a one-element set.  An operator below names its operands
\* once, as  x \in {x0},  so that each operand is evaluated a single time
\* however often the operator uses it.
The(S) == CHOOSE r \in S : TRUE

\* Carry propagation over the digits from..to, with the carry c coming in
\* from the right: <<the digits, the carry out>>.  Floor division keeps
\* every digit in 0..b-1, whatever the signs.  The range is halved rather
\* than walked digit by digit to keep the evaluation shallow.
RECURSIVE CarryRange(_, _, _, _, _)
CarryRange(s, b, from, to, c) ==
    IF from = to
    THEN <<<<(s[from] + c) % b>>, (s[from] + c) \div b>>
    ELSE The({The({<<left[1] \o right[1], left[2]>> :
                      left \in {CarryRange(s, b, from, (from + to) \div 2,
                                           right[2])}}) :
                 right \in {CarryRange(s, b, (from + to) \div 2 + 1, to, c)}})

\* The first digit takes what is carried out of the vector
Norm(s0, b) ==
    The({[r[1] EXCEPT ![1] = r[1][1] + b * r[2]] :
            r \in {The({CarryRange(s, b, 1, Len(s), 0) : s \in {s0}})}})

\* x + y, x - y, x + n, x * m
Add(x0, y0, b) ==
    The({Norm([k \in 1..Len(x) |-> x[k] + y[k]], b) : x \in {x0}, y \in {y0}})
Sub(x0, y0, b) ==
    The({Norm([k \in 1..Len(x) |-> x[k] - y[k]], b) : x \in {x0}, y \in {y0}})
AddInt(x0, n, b) ==
    The({Norm([x EXCEPT ![Len(x)] = x[Len(x)] + n], b) : x \in {x0}})
MulInt(x0, m, b) ==
    The({Norm([k \in 1..Len(x) |-> x[k] * m], b) : x \in {x0}})

\* Long division by a small m > 0 of the digits from..to, with the
\* remainder r coming in from the left: <<the digits, the remainder>>
RECURSIVE DivRange(_, _, _, _, _, _)
DivRange(x, m, b, from, to, r) ==
    IF from = to
    THEN <<<<(r * b + x[from]) \div m>>, (r * b + x[from]) % m>>
    ELSE The({The({<<left[1] \o right[1], right[2]>> :
                      right \in {DivRange(x, m, b, (from + to) \div 2 + 1, to,
                                          left[2])}}) :
                 left \in {DivRange(x, m, b, from, (from + to) \div 2, r)}})

\* floor(x / m)
FloorDivInt(x0, m, b) == The({DivRange(x, m, b, 1, Len(x), 0)[1] : x \in {x0}})

\* Math.ceil(x * (1 / 256)): the product is exact, 1/256 being a power of 2
CeilDiv256(x, b) == FloorDivInt(AddInt(x, 255, b), 256, b)

\* x <= y, on normalised vectors: no digit of x is above y's with all the
\* digits before it equal
Leq(x0, y0) ==
    The({~\E k \in 1..Len(x) :
             /\ x[k] > y[k]
             /\ \A j \in 1..(k - 1) : x[j] = y[j] : x \in {x0}, y \in {y0}})

Zero(L) == [k \in 1..L |-> 0]

-----------------------------------------------------------------------------
(* calculateParams *)

\* The accumulator msdDivisor of the first loop, as <<h, l>> = h * 2^20 + l
Limb == 2^20

AccTimes(acc0, b) ==
    The({<<al[1] * b + al[2] \div Limb, al[2] % Limb>> :
            al \in {The({<<acc[1], acc[2] * b>> : acc \in {acc0}})}})

\* msdDivisor <= 0x100_0000_0000
AccLeqCeiling(acc) == acc[1] < Limb \/ (acc[1] = Limb /\ acc[2] = 0)

\* while (msdDivisor <= 0x100_0000_0000) { msdDivisor *= base; ++maxDigitsToDecode }
\* returns the final maxDigitsToDecode; msdDivisor is then base^maxDigitsToDecode
RECURSIVE PrecisionLoop(_, _, _)
PrecisionLoop(acc0, b, maxDigitsToDecode) ==
    CHOOSE n \in {IF AccLeqCeiling(acc)
                  THEN PrecisionLoop(AccTimes(acc, b), b, maxDigitsToDecode + 1)
                  ELSE maxDigitsToDecode : acc \in {acc0}} : TRUE

\* let maxDigitsToEmit = 1; let tmp = 1
EmitInit == 1

\* EmitLoop with the loop test off by one: while (tmp <= 0x100)
RECURSIVE EmitLoopLeq(_, _, _)
EmitLoopLeq(tmp, b, maxDigitsToEmit) ==
    IF tmp <= 256
    THEN EmitLoopLeq(tmp * b, b, maxDigitsToEmit + 1)
    ELSE maxDigitsToEmit

\* while (tmp < 0x100) { tmp *= base; ++maxDigitsToEmit }
RECURSIVE EmitLoop(_, _, _)
EmitLoop(tmp, b, maxDigitsToEmit) ==
    IF tmp < 256
    THEN EmitLoop(tmp * b, b, maxDigitsToEmit + 1)
    ELSE maxDigitsToEmit

\* msdDivisor and secondMsdDivisor are returned as their exponents:
\* msdDivisor = floor(base^n / base^2) = base^(n-2), secondMsdDivisor =
\* base^(n-3), and maxDigitsToDecode = n - 1.
calculateParams(b) ==
    The({[msdExp |-> n - 2,
          secondMsdExp |-> n - 3,
          maxDigitsToEmit |-> EmitLoop(1, b, EmitInit),
          maxDigitsToDecode |-> n - 1] : n \in {PrecisionLoop(<<0, 1>>, b, 0)}})

-----------------------------------------------------------------------------
(* Bounds of the model and the inputs drawn *)

MaxBytes == 3
MaxInsertAt == 2
MaxAlphabetLen == 4
MaxBodyLen == 6

\* Alphabet sizes tried for the encode/decode round trip
Bases == {2, 3, 7, 85, 256}

\* Byte values the encoder's input is drawn from
ByteVals == {0, 5, 128, 255}

\* An alphabet of b distinct symbols, none of them whitespace: a prefix of
\* the default alphabet, or 256 code points in descending order
AlphabetOf(b) ==
    IF b <= Len(DEFAULT_ALPHABET) THEN SubSeq(DEFAULT_ALPHABET, 1, b)
    ELSE [k \in 1..b |-> 512 - k]

-----------------------------------------------------------------------------
(* Interval arithmetic shared by encode and decode *)

\* Math.floor(x / msdDivisor)
Msd(x) == x[1]

\* Math.floor(x / secondMsdDivisor) % base
SecondDigit(x) == x[2]

\* x % msdDivisor * base
ShiftOut(x) == Tail(x) \o <<0>>

\* ShiftOutSecond dropping the leading digit instead of the second one
ShiftOutLeading(msd, x) == Tail(x) \o <<0>>

\* msd * msdDivisor + x % secondMsdDivisor * base
ShiftOutSecond(msd, x) == <<msd>> \o SubSeq(x, 3, Len(x)) \o <<0>>

\* FullHi without the - 1
FullHiPlusOne(b, L) == [k \in 1..L |-> IF k = 1 THEN b ELSE 0]

\* msdDivisor * base - 1
FullHi(b, L) == AddInt([k \in 1..L |-> IF k = 1 THEN b ELSE 0], -1, b)

\* hi - lo + 1
Width(l, h, b) == AddInt(Sub(h, l, b), 1, b)

\* lo + Math.ceil((hi - lo + 1) * byte * (1 / 256))
NextLo(l, h, bv, b) == Add(l, CeilDiv256(MulInt(Width(l, h, b), bv, b), b), b)

\* NextHi without the - 1: the sub-intervals of two bytes overlap
NextHiOverlap(l, h, bv, b) ==
    Add(l, CeilDiv256(MulInt(AddInt(Sub(h, l, b), 1, b), bv + 1, b), b), b)

\* lo + (Math.ceil((hi - lo + 1) * (byte + 1) * (1 / 256)) - 1)
NextHi(l, h, bv, b) ==
    Add(l, AddInt(CeilDiv256(MulInt(Width(l, h, b), bv + 1, b), b), -1, b), b)

\* hiMsd - loMsd === 1 and the second digits are base - 1 and 0
Straddles(l, h, b) ==
    /\ Msd(h) - Msd(l) = 1
    /\ SecondDigit(l) = b - 1
    /\ SecondDigit(h) = 0

\* this.encodingTable[index]; outside the table it is undefined, written -1
\* here (no char code is negative)
SymbolAt(table, index) ==
    IF index \in 0..(Len(table) - 1) THEN table[index + 1] ELSE -1

\* n copies of ch
Repeat(ch, n) == [k \in 1..n |-> ch]

-----------------------------------------------------------------------------
(* Encoder.encode *)

\* lines 46-56: parameters and initial interval
EncStart ==
    /\ pc = "encStart"
    /\ base' = Len(alphabet)
    /\ params' = calculateParams(base')
    /\ result' = << >>
    /\ bytesEncoded' = 0
    /\ lo' = Zero(params'.maxDigitsToDecode)
    /\ hi' = FullHi(base', params'.maxDigitsToDecode)
    /\ digitsToAdd' = 0
    /\ digitsToAddHiMsd' = 0
    /\ pc' = "encFor"
    /\ UNCHANGED <<alphabet, decodingTable, tableI, bytes, budget,
                   encodedText, inserted, endIndex, lengthParity,
                   bytesDecoded, decLo, decHi, i, digitsToDecode,
                   requestedDigits, requestedDigitsKeepMsd, isLastDigit,
                   byte, output>>

EncUnchanged ==
    UNCHANGED <<base, alphabet, decodingTable, tableI, params, encodedText,
                inserted, endIndex, lengthParity, bytesDecoded, decLo, decHi,
                i, digitsToDecode, requestedDigits, requestedDigitsKeepMsd,
                isLastDigit, byte, output>>

\* lines 57-66: the iterable yields another byte; narrow the interval
EncNarrow ==
    /\ pc = "encFor"
    /\ Len(bytes) < MaxBytes
    /\ \E bv \in ByteVals :
          /\ bytes' = Append(bytes, bv)
          /\ lo' = NextLo(lo, hi, bv, base)
          /\ hi' = NextHi(lo, hi, bv, base)
    /\ budget' = params.maxDigitsToEmit
    /\ pc' = "encExtract"
    /\ UNCHANGED <<result, bytesEncoded, digitsToAdd, digitsToAddHiMsd>>
    /\ EncUnchanged

\* lines 70-81: defer a digit across a possible carry
EncDefer ==
    /\ pc = "encExtract"
    /\ budget > 0
    /\ Straddles(lo, hi, base)
    /\ lo' = ShiftOutSecond(Msd(lo), lo)
    /\ hi' = ShiftOutSecond(Msd(hi), hi)
    /\ digitsToAdd' = digitsToAdd + 1
    /\ digitsToAddHiMsd' = Msd(hi)
    /\ budget' = budget - 1
    /\ UNCHANGED <<pc, bytes, result, bytesEncoded>>
    /\ EncUnchanged

\* lines 85-96: the leading digit is settled; emit it and the pending ones
EncSettle ==
    /\ pc = "encExtract"
    /\ budget > 0
    /\ Msd(hi) - Msd(lo) # 1
    /\ Msd(lo) = Msd(hi)
    /\ result' = Append(result, SymbolAt(alphabet, Msd(hi)))
                 \o Repeat(SymbolAt(alphabet,
                               IF Msd(hi) = digitsToAddHiMsd
                               THEN 0 ELSE base - 1),
                           digitsToAdd)
    /\ digitsToAdd' = 0
    /\ lo' = ShiftOut(lo)
    /\ hi' = ShiftOut(hi)
    /\ budget' = budget - 1
    /\ UNCHANGED <<pc, bytes, bytesEncoded, digitsToAddHiMsd>>
    /\ EncUnchanged

\* lines 82-84, 97-99, 102: break out of the extraction loop
EncBreak ==
    /\ pc = "encExtract"
    /\ budget > 0
    /\ \/ Msd(hi) - Msd(lo) = 1 /\ ~Straddles(lo, hi, base)
       \/ Msd(hi) - Msd(lo) # 1 /\ Msd(lo) # Msd(hi)
    /\ bytesEncoded' = bytesEncoded + 1
    /\ pc' = "encFor"
    /\ UNCHANGED <<bytes, result, lo, hi, digitsToAdd, digitsToAddHiMsd,
                   budget>>
    /\ EncUnchanged

\* lines 66, 102: maxDigitsToEmit iterations done
EncBudgetSpent ==
    /\ pc = "encExtract"
    /\ budget = 0
    /\ bytesEncoded' = bytesEncoded + 1
    /\ pc' = "encFor"
    /\ UNCHANGED <<bytes, result, lo, hi, digitsToAdd, digitsToAddHiMsd,
                   budget>>
    /\ EncUnchanged

\* lines 105-114: the iterable is exhausted; last digit, pending digits,
\* terminator.  The text returned is what the caller hands to decode.
EncReturn ==
    /\ pc = "encFor"
    /\ result' = Append(result, SymbolAt(alphabet, Msd(hi)))
                 \o Repeat(SymbolAt(alphabet, 0), digitsToAdd)
                 \o <<SymbolAt(alphabet, bytesEncoded % 2)>>
    /\ digitsToAdd' = 0
    /\ encodedText' = result'
    /\ pc' = "text"
    /\ UNCHANGED <<base, alphabet, decodingTable, tableI, params, bytes,
                   bytesEncoded, lo, hi, digitsToAddHiMsd, budget, inserted,
                   endIndex, lengthParity, bytesDecoded, decLo, decHi, i,
                   digitsToDecode, requestedDigits, requestedDigitsKeepMsd,
                   isLastDigit, byte, output>>

-----------------------------------------------------------------------------
(* Decoder constructor *)

\* TableSet keeping an entry that exists
TableSetIfAbsent(table, code, index) ==
    IF code \in DOMAIN table THEN table ELSE (code :> index) @@ table

\* this.decodingTable.set(code, index): an existing entry is overwritten
TableSet(table, code, index) == (code :> index) @@ table

EmptyTable == << >>

\* for (let i = alphabet.length; i--;) set(alphabet.charCodeAt(i), i):
\* the iterations i = high, high - 1, ..., low, in that order.  The entries
\* set by the later iterations (mid .. low) override those of the earlier
\* ones; the range is halved to keep the evaluation shallow.
RECURSIVE TableLoop(_, _, _, _)
TableLoop(table, alpha, high, low) ==
    IF high < low THEN table
    ELSE IF high = low THEN TableSet(table, alpha[high + 1], high)
    ELSE LET mid == (high + low) \div 2
         IN  TableLoop(EmptyTable, alpha, mid, low)
             @@ TableLoop(table, alpha, high, mid + 1)

\* The table a constructed Decoder holds
DecodingTable(alpha) == TableLoop(EmptyTable, alpha, Len(alpha) - 1, 0)

TableUnchanged ==
    UNCHANGED <<base, alphabet, params, bytes, result, bytesEncoded, lo, hi,
                digitsToAdd, digitsToAddHiMsd, budget, encodedText, inserted,
                endIndex, lengthParity, bytesDecoded, decLo, decHi, i,
                digitsToDecode, requestedDigits, requestedDigitsKeepMsd,
                isLastDigit, byte, output>>

\* lines 137-151: the size checks, the empty map, the loop variable
NewDecoder ==
    /\ pc = "new"
    /\ IF Len(alphabet) < MIN_ALPHABET_SIZE \/ Len(alphabet) > MAX_ALPHABET_SIZE
       THEN pc' = "configError" /\ UNCHANGED <<decodingTable, tableI>>
       ELSE /\ decodingTable' = EmptyTable
            /\ tableI' = Len(alphabet)
            /\ pc' = "tableLoop"
    /\ TableUnchanged

\* lines 151-153: one iteration, i-- then set
TableStep ==
    /\ pc = "tableLoop"
    /\ tableI > 0
    /\ tableI' = tableI - 1
    /\ decodingTable' = TableSet(decodingTable, alphabet[tableI], tableI - 1)
    /\ UNCHANGED pc
    /\ TableUnchanged

\* line 151: i-- is 0, the constructor returns
TableDone ==
    /\ pc = "tableLoop"
    /\ tableI = 0
    /\ pc' = "constructed"
    /\ UNCHANGED <<decodingTable, tableI>>
    /\ TableUnchanged

-----------------------------------------------------------------------------
(* decode *)

IsNeg(x) == x[1] < 0

Negate(x0, b) == The({Sub(Zero(Len(x)), x, b) : x \in {x0}})

\* Largest q in 0 .. 2 * bit - 1 with q * w <= n, for n >= 0 and w > 0
RECURSIVE QuotSearch(_, _, _, _, _)
QuotSearch(n, w, b, q, bit) ==
    IF bit = 0 THEN q
    ELSE IF Leq(MulInt(w, q + bit, b), n)
         THEN QuotSearch(n, w, b, q + bit, bit \div 2)
         ELSE QuotSearch(n, w, b, q, bit \div 2)

\* The quotients of the program are at most a few hundred
QuotTopBit == 2^12

\* floor(n / w) for w > 0 and |n| < QuotTopBit * w
FloorQuot(n, w, b) ==
    IF IsNeg(n)
    THEN 0 - The({QuotSearch(m, w, b, 0, QuotTopBit) :
                     m \in {AddInt(Add(Negate(n, b), w, b), -1, b)}})
    ELSE QuotSearch(n, w, b, 0, QuotTopBit)

\* Math.floor(256 * (digitsToDecode - lo) / (hi - lo + 1)).  The quotient of
\* two integers below 2^49 is never rounded up to the next integer by the
\* floating-point division, so Math.floor gives the exact floor.  A zero
\* divisor gives NaN or an infinity.
ByteOf(d, l, h, b) ==
    The({IF w0 = Zero(Len(w0)) THEN "nonfinite"
         ELSE The({IF Leq(MulInt(w, QuotTopBit, b),
                          IF IsNeg(n) THEN Negate(n, b) ELSE n)
                   THEN "toolarge"
                   ELSE FloorQuot(n, w, b) :
                      n \in {IF IsNeg(w0) THEN Negate(n0, b) ELSE n0},
                      w \in {IF IsNeg(w0) THEN Negate(w0, b) ELSE w0}}) :
            n0 \in {MulInt(Sub(d, l, b), 256, b)},
            w0 \in {Width(l, h, b)}})

\* digitsToDecode % msdDivisor * base + digit
PushDigit(d, digit) == Tail(d) \o <<digit>>

\* PushDigitKeepMsd shifting the leading digit out like PushDigit
PushDigitDropMsd(d, digit) == Tail(d) \o <<digit>>

\* digitsToDecodeMsd * msdDivisor + digitsToDecode % secondMsdDivisor * base
\* + digit
PushDigitKeepMsd(d, digit) == <<Msd(d)>> \o SubSeq(d, 3, Len(d)) \o <<digit>>

\* Has written as a truthiness test of decodingTable.get(code): index 0 is
\* falsy
HasTruthy(table, code) == code \in DOMAIN table /\ table[code] # 0

\* decodingTable.has(code)
Has(table, code) == code \in DOMAIN table

DecUnchanged ==
    UNCHANGED <<alphabet, decodingTable, tableI, bytes, result, bytesEncoded,
                lo, hi, digitsToAdd, digitsToAddHiMsd, encodedText, inserted>>

\* lines 178-203: the checks on the text, the parameters, the initial state
DecStart ==
    /\ pc = "text"
    /\ endIndex' = Len(encodedText) - 1
    /\ IF \/ endIndex' < 0
          \/ ~Has(decodingTable, encodedText[endIndex' + 1])
       THEN /\ pc' = "inputError"
            /\ UNCHANGED <<base, params, lengthParity, bytesDecoded, decLo,
                           decHi, i, digitsToDecode, requestedDigits,
                           requestedDigitsKeepMsd, isLastDigit>>
       ELSE /\ lengthParity' = decodingTable[encodedText[endIndex' + 1]]
            /\ IF lengthParity' > 1
               THEN /\ pc' = "inputError"
                    /\ UNCHANGED <<base, params, bytesDecoded, decLo, decHi,
                                   i, digitsToDecode, requestedDigits,
                                   requestedDigitsKeepMsd, isLastDigit>>
               ELSE /\ base' = Cardinality(DOMAIN decodingTable)
                    /\ params' = calculateParams(base')
                    /\ bytesDecoded' = 0
                    /\ decLo' = Zero(params'.maxDigitsToDecode)
                    /\ decHi' = FullHi(base', params'.maxDigitsToDecode)
                    /\ i' = 0
                    /\ digitsToDecode' = Zero(params'.maxDigitsToDecode)
                    /\ requestedDigits' = params'.maxDigitsToDecode
                    /\ requestedDigitsKeepMsd' = 0
                    /\ isLastDigit' = FALSE
                    /\ pc' = "decWhile"
    /\ UNCHANGED <<budget, byte, output>>
    /\ DecUnchanged

\* line 205: while (requestedDigits > 0), taken
DecWhile ==
    /\ pc = "decWhile"
    /\ requestedDigits > 0
    /\ pc' = "decRead"
    /\ UNCHANGED <<base, params, budget, endIndex, lengthParity,
                   bytesDecoded, decLo, decHi, i, digitsToDecode,
                   requestedDigits, requestedDigitsKeepMsd, isLastDigit, byte,
                   output>>
    /\ DecUnchanged

\* lines 223-235: ++i, the digit enters the accumulator
Consume(digit) ==
    /\ i' = i + 1
    /\ IF requestedDigits = requestedDigitsKeepMsd
       THEN /\ digitsToDecode' = PushDigitKeepMsd(digitsToDecode, digit)
            /\ requestedDigitsKeepMsd' = requestedDigitsKeepMsd - 1
       ELSE /\ digitsToDecode' = PushDigit(digitsToDecode, digit)
            /\ UNCHANGED requestedDigitsKeepMsd
    /\ requestedDigits' = requestedDigits - 1

\* lines 206-235: one pass of the inner loop body
DecRead ==
    /\ pc = "decRead"
    /\ IF i < endIndex
       THEN LET charCode == encodedText[i + 1]
            IN  IF ~Has(decodingTable, charCode)
                THEN /\ IF isWhitespace(charCode)
                        THEN pc' = "decWhile"      \* continue
                        ELSE pc' = "inputError"
                     /\ UNCHANGED <<i, digitsToDecode, requestedDigits,
                                    requestedDigitsKeepMsd, isLastDigit>>
                ELSE /\ Consume(decodingTable[charCode])
                     /\ UNCHANGED isLastDigit
                     /\ pc' = "decWhile"
       ELSE /\ isLastDigit' =
                  (isLastDigit \/ i - endIndex = params.maxDigitsToDecode - 2)
            /\ Consume(0)
            /\ pc' = "decWhile"
    /\ UNCHANGED <<base, params, budget, endIndex, lengthParity,
                   bytesDecoded, decLo, decHi, byte, output>>
    /\ DecUnchanged

\* lines 238-247: the last byte is computed; it is yielded if the parity
\* says it is data, and the generator returns
DecFinish ==
    /\ pc = "decWhile"
    /\ requestedDigits = 0
    /\ isLastDigit
    /\ byte' = ByteOf(digitsToDecode, decLo, decHi, base)
    /\ output' = IF bytesDecoded % 2 # lengthParity
                 THEN Append(output, byte') ELSE output
    /\ pc' = "done"
    /\ UNCHANGED <<base, params, budget, endIndex, lengthParity,
                   bytesDecoded, decLo, decHi, i, digitsToDecode,
                   requestedDigits, requestedDigitsKeepMsd, isLastDigit>>
    /\ DecUnchanged

\* lines 238-259: a byte is computed and yielded; narrow the interval
DecYield ==
    /\ pc = "decWhile"
    /\ requestedDigits = 0
    /\ ~isLastDigit
    /\ byte' = ByteOf(digitsToDecode, decLo, decHi, base)
    /\ output' = Append(output, byte')
    /\ decLo' = NextLo(decLo, decHi, byte', base)
    /\ decHi' = NextHi(decLo, decHi, byte', base)
    /\ budget' = params.maxDigitsToEmit
    /\ pc' = "decExtract"
    /\ UNCHANGED <<base, params, endIndex, lengthParity, bytesDecoded, i,
                   digitsToDecode, requestedDigits, requestedDigitsKeepMsd,
                   isLastDigit>>
    /\ DecUnchanged

\* lines 263-273: a deferred digit is requested
DecDefer ==
    /\ pc = "decExtract"
    /\ budget > 0
    /\ Straddles(decLo, decHi, base)
    /\ decLo' = ShiftOutSecond(Msd(decLo), decLo)
    /\ decHi' = ShiftOutSecond(Msd(decHi), decHi)
    /\ requestedDigits' = requestedDigits + 1
    /\ requestedDigitsKeepMsd' = requestedDigitsKeepMsd + 1
    /\ budget' = budget - 1
    /\ UNCHANGED <<pc, base, params, endIndex, lengthParity, bytesDecoded, i,
                   digitsToDecode, isLastDigit, byte, output>>
    /\ DecUnchanged

\* lines 277-280: a settled digit is requested
DecSettle ==
    /\ pc = "decExtract"
    /\ budget > 0
    /\ Msd(decHi) - Msd(decLo) # 1
    /\ Msd(decLo) = Msd(decHi)
    /\ decLo' = ShiftOut(decLo)
    /\ decHi' = ShiftOut(decHi)
    /\ requestedDigits' = requestedDigits + 1
    /\ budget' = budget - 1
    /\ UNCHANGED <<pc, base, params, endIndex, lengthParity, bytesDecoded, i,
                   digitsToDecode, requestedDigitsKeepMsd, isLastDigit, byte,
                   output>>
    /\ DecUnchanged

\* lines 274-276, 281-283, 286: break out of the extraction loop
DecBreak ==
    /\ pc = "decExtract"
    /\ budget > 0
    /\ \/ Msd(decHi) - Msd(decLo) = 1 /\ ~Straddles(decLo, decHi, base)
       \/ Msd(decHi) - Msd(decLo) # 1 /\ Msd(decLo) # Msd(decHi)
    /\ bytesDecoded' = bytesDecoded + 1
    /\ pc' = "decWhile"
    /\ UNCHANGED <<base, params, budget, endIndex, lengthParity, decLo,
                   decHi, i, digitsToDecode, requestedDigits,
                   requestedDigitsKeepMsd, isLastDigit, byte, output>>
    /\ DecUnchanged

\* lines 259, 286: maxDigitsToEmit iterations done
DecBudgetSpent ==
    /\ pc = "decExtract"
    /\ budget = 0
    /\ bytesDecoded' = bytesDecoded + 1
    /\ pc' = "decWhile"
    /\ UNCHANGED <<base, params, budget, endIndex, lengthParity, decLo,
                   decHi, i, digitsToDecode, requestedDigits,
                   requestedDigitsKeepMsd, isLastDigit, byte, output>>
    /\ DecUnchanged

-----------------------------------------------------------------------------
(* The text handed to decode *)

\* Whitespace characters put into an encoded text
InsertedChars == {32, 10, 8233}

Min(a, b) == IF a < b THEN a ELSE b

\* The caller puts one whitespace character into the encoded text, somewhere
\* before its terminator
InsertWhitespace ==
    /\ pc = "text"
    /\ inserted = 0
    /\ \E at \in 0..Min(MaxInsertAt, Len(encodedText) - 1), ch \in InsertedChars :
          encodedText' = SubSeq(encodedText, 1, at) \o <<ch>>
                         \o SubSeq(encodedText, at + 1, Len(encodedText))
    /\ inserted' = inserted + 1
    /\ UNCHANGED <<pc, base, alphabet, decodingTable, tableI, params, bytes,
                   result, bytesEncoded, lo, hi, digitsToAdd,
                   digitsToAddHiMsd, budget, endIndex, lengthParity,
                   bytesDecoded, decLo, decHi, i, digitsToDecode,
                   requestedDigits, requestedDigitsKeepMsd, isLastDigit, byte,
                   output>>

-----------------------------------------------------------------------------
(* Specifications *)

\* Values of the locals before the call that declares them runs
Idle ==
    /\ tableI = 0
    /\ params = calculateParams(MIN_ALPHABET_SIZE)
    /\ bytes = << >>
    /\ result = << >>
    /\ bytesEncoded = 0
    /\ lo = << >>
    /\ hi = << >>
    /\ digitsToAdd = 0
    /\ digitsToAddHiMsd = 0
    /\ budget = 0
    /\ inserted = 0
    /\ endIndex = 0
    /\ lengthParity = 0
    /\ bytesDecoded = 0
    /\ decLo = << >>
    /\ decHi = << >>
    /\ i = 0
    /\ digitsToDecode = << >>
    /\ requestedDigits = 0
    /\ requestedDigitsKeepMsd = 0
    /\ isLastDigit = FALSE
    /\ byte = 0
    /\ output = << >>

\* An Encoder and a Decoder constructed over the same alphabet; encode is
\* called, and its text (with whitespace put in, or not) is decoded.
Init ==
    /\ pc = "encStart"
    /\ \E b \in Bases : alphabet = AlphabetOf(b)
    /\ decodingTable = DecodingTable(alphabet)
    /\ base = 0
    /\ encodedText = << >>
    /\ Idle

Encode ==
    \/ EncStart
    \/ EncNarrow
    \/ EncDefer
    \/ EncSettle
    \/ EncBreak
    \/ EncBudgetSpent
    \/ EncReturn

Decode ==
    \/ DecStart
    \/ DecWhile
    \/ DecRead
    \/ DecFinish
    \/ DecYield
    \/ DecDefer
    \/ DecSettle
    \/ DecBreak
    \/ DecBudgetSpent

Next == Encode \/ InsertWhitespace \/ Decode

Spec == Init /\ [][Next]_vars

\* encode and decode run to completion once called: a synchronous call
\* whose caller collects every value
FairSpec == Spec /\ WF_vars(Next)

\* ---- decode called on any text ----

\* Alphabet sizes tried
DecBases == {3, 256}

\* A character that is neither whitespace nor in any alphabet used here
OtherChars == {1}

\* Characters a text is made of: the symbols of digit 1 and of digit
\* base - 1, a space, a character outside the alphabet
BodyChars(alpha) == {alpha[2], alpha[Len(alpha)], 32} \cup OtherChars

\* The last character: also the symbol of digit 0
LastChars(alpha) == {alpha[1]} \cup BodyChars(alpha)

Texts(alpha) ==
    {<< >>} \cup
    {body \o <<last>> :
        body \in UNION {[1..n -> BodyChars(alpha)] : n \in 0..MaxBodyLen},
        last \in LastChars(alpha)}

InitDec ==
    /\ pc = "text"
    /\ \E b \in DecBases : alphabet = AlphabetOf(b)
    /\ decodingTable = DecodingTable(alphabet)
    /\ base = 0
    /\ encodedText \in Texts(alphabet)
    /\ Idle

SpecDec == InitDec /\ [][Decode]_vars

FairSpecDec == SpecDec /\ WF_vars(Decode)

\* ---- the Decoder constructor on any alphabet ----

\* Symbols an alphabet is made of, repeats allowed
TableSymbols == {97, 98, 99}

InitTable ==
    /\ pc = "new"
    /\ alphabet \in UNION {[1..n -> TableSymbols] : n \in 1..MaxAlphabetLen}
    /\ decodingTable = EmptyTable
    /\ base = 0
    /\ encodedText = << >>
    /\ Idle

NextTable == NewDecoder \/ TableStep \/ TableDone

SpecTable == InitTable /\ [][NextTable]_vars

\* ---- calculateParams on every alphabet size ----

CalcParams ==
    /\ pc = "params"
    /\ params' = calculateParams(base)
    /\ pc' = "paramsDone"
    /\ UNCHANGED <<base, alphabet, decodingTable, tableI, bytes, result,
                   bytesEncoded, lo, hi, digitsToAdd, digitsToAddHiMsd,
                   budget, encodedText, inserted, endIndex, lengthParity,
                   bytesDecoded, decLo, decHi, i, digitsToDecode,
                   requestedDigits, requestedDigitsKeepMsd, isLastDigit, byte,
                   output>>

InitParams ==
    /\ pc = "params"
    /\ base \in MIN_ALPHABET_SIZE..MAX_ALPHABET_SIZE
    /\ alphabet = << >>
    /\ decodingTable = EmptyTable
    /\ encodedText = << >>
    /\ Idle

SpecParams == InitParams /\ [][CalcParams]_vars

-----------------------------------------------------------------------------
(* Properties *)

Range(f) == {f[k] : k \in DOMAIN f}

\* A non-empty text of alphabet symbols whose last symbol has digit 0 or 1
ValidText ==
    /\ Len(encodedText) > 0
    /\ \A k \in 1..Len(encodedText) : encodedText[k] \in Range(alphabet)
    /\ decodingTable[encodedText[Len(encodedText)]] <= 1

\* An empty text, a last character that is no symbol of digit 0 or 1, or a
\* character before the last that is neither whitespace nor in the alphabet
MalformedText ==
    \/ Len(encodedText) = 0
    \/ encodedText[Len(encodedText)] \notin Range(alphabet)
    \/ decodingTable[encodedText[Len(encodedText)]] >= 2
    \/ \E k \in 1..(Len(encodedText) - 1) :
          /\ encodedText[k] \notin Range(alphabet)
          /\ ~isWhitespace(encodedText[k])

\* C1: decoding the text encode returned yields exactly the bytes encoded,
\* in order (round trip).
C1_RoundTrip == (pc = "done" /\ inserted = 0) => output = bytes

\* a byte sequence ending in a zero byte went through a 256-symbol alphabet
C1_Witness ==
    /\ pc = "done"
    /\ inserted = 0
    /\ base = 256
    /\ Len(bytes) >= 2
    /\ bytes[Len(bytes)] = 0
    /\ output = bytes

\* C2: an encoded text with whitespace put in before its terminator is
\* decoded to the end, to the bytes that were encoded.
C2_WhitespaceTolerated ==
    (pc = "text" /\ inserted > 0) ~> (pc = "done" /\ output = bytes)

\* C3: decode of a malformed text ends with the InputError.
C3_MalformedRejected ==
    (pc = "text" /\ MalformedText) ~> (pc = "inputError")

\* C4: decode of a non-empty text of alphabet symbols with a last symbol of
\* digit 0 or 1 reaches its return.
C4_DecodeTerminates == (pc = "text" /\ ValidText) ~> (pc = "done")

\* a text encode never returns (it yields 256) was decoded to the end
C4_Witness ==
    /\ pc = "done"
    /\ ValidText
    /\ \E k \in 1..Len(output) : output[k] = 256

\* C5: every symbol the encoder puts out is a symbol of its alphabet, that
\* is, every index it uses lies in 0 .. base - 1.
C5_OutputInAlphabet ==
    \A k \in 1..Len(result) : result[k] \in Range(alphabet)

\* three bytes were encoded over the two-symbol alphabet, pending digits
\* included
C5_Witness ==
    /\ pc = "text"
    /\ Len(alphabet) = 2
    /\ Len(bytes) >= 3
    /\ Range(result) = Range(alphabet)

\* C6: while encode runs, 0 <= lo <= hi <= msdDivisor * base - 1.
C6_IntervalInvariant ==
    pc \in {"encFor", "encExtract"} =>
        /\ ~IsNeg(lo)
        /\ Leq(lo, hi)
        /\ Leq(hi, FullHi(base, Len(hi)))

\* the extraction loop has used up its maxDigitsToEmit iterations
C6_Witness ==
    /\ pc = "encExtract"
    /\ budget = 0
    /\ Leq(lo, hi)

\* Smallest m with b^m >= 256
MinDigits(b) ==
    CHOOSE m \in 1..8 : b^m >= 256 /\ \A j \in 1..(m - 1) : b^j < 256

\* C7 (as stated): maxDigitsToEmit is the smallest m with base^m >= 256.
C7_SmallestDigitCount ==
    pc = "paramsDone" => params.maxDigitsToEmit = MinDigits(base)

\* C7 (amended): maxDigitsToEmit is one more than the smallest m with
\* base^m >= 256.
C7_OneMoreThanSmallest ==
    pc = "paramsDone" => params.maxDigitsToEmit = MinDigits(base) + 1

\* base 16: 16^2 = 256, and maxDigitsToEmit is 3
C7_Witness ==
    /\ pc = "paramsDone"
    /\ base = 16
    /\ params.maxDigitsToEmit = 3

\* Indices (from 0) at which the alphabet holds the symbol
Occurrences(alpha, code) == {k - 1 : k \in {j \in 1..Len(alpha) : alpha[j] = code}}

Highest(S) == CHOOSE x \in S : \A y \in S : y <= x
Lowest(S) == CHOOSE x \in S : \A y \in S : x <= y

\* C8 (as stated): the decoding table maps a symbol to the index of its last
\* occurrence in the alphabet.
C8_LastOccurrenceWins ==
    pc = "constructed" =>
        \A code \in Range(alphabet) :
            decodingTable[code] = Highest(Occurrences(alphabet, code))

\* C8 (amended): the decoding table maps a symbol to the index of its first
\* occurrence in the alphabet.
C8_FirstOccurrenceWins ==
    pc = "constructed" =>
        \A code \in Range(alphabet) :
            decodingTable[code] = Lowest(Occurrences(alphabet, code))

\* a Decoder was constructed over an alphabet that repeats a symbol
C8_Witness ==
    /\ pc = "constructed"
    /\ Cardinality(Range(alphabet)) < Len(alphabet)

\* C9: while digits are pending their reference digitsToAddHiMsd keeps its
\* value, and a digit that settles with digits pending is the reference or
\* the reference minus 1.
C9_ReferenceFixed ==
    [][/\ (digitsToAdd > 0 /\ digitsToAdd' > 0)
           => digitsToAddHiMsd' = digitsToAddHiMsd
       /\ (pc = "encExtract" /\ pc' = "encExtract"
           /\ digitsToAdd > 0 /\ digitsToAdd' = 0)
           => Msd(hi) \in {digitsToAddHiMsd, digitsToAddHiMsd - 1}]_vars

\* a second byte was narrowed with a digit pending, and a second digit was
\* deferred in the same run
C9_Witness ==
    /\ pc = "encExtract"
    /\ Len(bytes) >= 2
    /\ digitsToAdd >= 2

\* C10: every value decode yields for a valid text is an integer in
\* 0 .. 255.
C10_YieldsBytes ==
    ValidText => \A k \in 1..Len(output) : output[k] \in 0..255

====
